---- MODULE Spec2Model ----
(***************************************************************************)
(* Model of the Arabic sarf quiz engine of src/app/page.tsx: the question  *)
(* sequencer (generateQuestionQueue), the distractor generator             *)
(* (generateWrongAnswers), the round timer and the game state machine of   *)
(* the ArabicSarfGame component (React state, effects and the timeouts the *)
(* handlers schedule).                                                     *)
(*                                                                         *)
(* JavaScript arrays are modelled as sequences; indices kept in the state  *)
(* are the program's 0-based indices (At reads element i of an array).     *)
(* A nullable value is <<>> (null / undefined) or <<v>>.                   *)
(* Wall-clock time is not a variable: a pending auto-advance timeout counts *)
(* the timer ticks it has lived through, which bounds how long it has been *)
(* pending (a tick takes 1000 ms, an auto-advance 1500 or 2500 ms).        *)
(***************************************************************************)
EXTENDS Integers, Sequences, FiniteSets, TLC

VARIABLES
  wordsData,          \* useState<WordData[]>([])
  loading,            \* useState(true)
  error,              \* useState<string | null>(null)
  currentWordIndex,   \* useState(0)
  currentFormIndex,   \* useState(0)
  score,              \* useState(0)
  totalQuestions,     \* useState(0)      (questionsAnswered)
  selectedAnswer,     \* useState<string | null>(null)
  showResult,         \* useState(false)  (answerRevealed)
  gameComplete,       \* useState(false)  (terminal = completed)
  choices,            \* useState<string[]>([])
  timeLeft,           \* useState(15)
  bombExploded,       \* useState(false)  (terminal = timedOut)
  showBombWarning,    \* useState(false)
  gameMode,           \* useState('sequential')
  questionQueue,      \* useState<{wordIndex, formIndex}[]>([])
  currentQueueIndex,  \* useState(0)
  timer,              \* the pending setTimeout of the timer effect, if any
  pending,            \* the pending auto-advance setTimeouts, oldest first
  ret                 \* the last value returned by a directly called function

vars == <<wordsData, loading, error, currentWordIndex, currentFormIndex, score,
          totalQuestions, selectedAnswer, showResult, gameComplete, choices,
          timeLeft, bombExploded, showBombWarning, gameMode, questionQueue,
          currentQueueIndex, timer, pending, ret>>

----------------------------------------------------------------------------
(* Program constants *)

TimeBudget == 15          \* useState(15), setTimeLeft(15)
WarningThreshold == 5     \* if (timeLeft <= 5)
MaxWrongAnswers == 3      \* wrongAnswers.length < 3, slice(0, 3)
TickDelay == 1000         \* setTimeout(..., 1000)
CorrectDelay == 1500      \* setTimeout(..., 1500)
IncorrectDelay == 2500    \* setTimeout(..., 2500)

Modes == {"sequential", "word-random", "fully-random"}

(* Bounds of the model *)

MaxCells == 5             \* distractor stores: verbs x forms <= MaxCells
MaxQueueCells == 6        \* sequencer stores: verbs x forms <= MaxQueueCells
MaxPending == 2           \* auto-advance timeouts pending at once

----------------------------------------------------------------------------
(* Data model *)

None == <<>>
Some(v) == <<v>>

At(arr, i) == arr[i + 1]
InRange(arr, i) == i >= 0 /\ i < Len(arr)

FormKeyNames == <<"k0", "k1", "k2", "k3", "k4", "k5", "k6">>

\* Object.keys(word.forms): the keys in insertion order
ObjectKeys(word) == [i \in 1..Len(word.forms) |-> word.forms[i].key]

\* Object.values(word.forms)
ObjectValues(word) == [i \in 1..Len(word.forms) |-> word.forms[i].val]

\* word.forms[key]: <<>> when the key is absent (undefined)
FormValue(word, key) ==
  LET hits == {i \in 1..Len(word.forms) : word.forms[i].key = key}
  IN  IF hits = {} THEN None ELSE Some(word.forms[CHOOSE i \in hits : TRUE].val)

\* JavaScript truthiness of a possibly-undefined string
Truthy(opt) == opt # None /\ opt[1] # ""

\* a verb entry whose forms carry the given values under the shared keys
MkWord(vals) == [forms |-> [i \in 1..Len(vals) |-> [key |-> FormKeyNames[i], val |-> vals[i]]]]

Shapes(maxCells) == {s \in (1..maxCells) \X (1..maxCells) : s[1] * s[2] <= maxCells}

\* every store of nWords verbs with nForms forms each and values in valSet
StoresOfShape(nWords, nForms, valSet) ==
  {[w \in 1..nWords |-> MkWord(m[w])] : m \in [1..nWords -> [1..nForms -> valSet]]}

----------------------------------------------------------------------------
(* Distractor generator: generateWrongAnswers *)

Contains(arr, v) == \E i \in 1..Len(arr) : arr[i] = v

\* Array.prototype.slice(0, n)
Slice(arr, n) == SubSeq(arr, 1, IF Len(arr) < n THEN Len(arr) ELSE n)

\* SameWordLoop without the test form !== correctAnswer
RECURSIVE SameWordLoop_KeepsCorrect(_, _, _, _)
SameWordLoop_KeepsCorrect(allForms, i, correctAnswer, wrongAnswers) ==
  IF i > Len(allForms) THEN wrongAnswers
  ELSE SameWordLoop_KeepsCorrect(allForms, i + 1, correctAnswer,
         IF Len(wrongAnswers) < MaxWrongAnswers
         THEN Append(wrongAnswers, allForms[i])
         ELSE wrongAnswers)

\* SameWordLoop stopping one distractor early (length < 2)
RECURSIVE SameWordLoop_StopsEarly(_, _, _, _)
SameWordLoop_StopsEarly(allForms, i, correctAnswer, wrongAnswers) ==
  IF i > Len(allForms) THEN wrongAnswers
  ELSE SameWordLoop_StopsEarly(allForms, i + 1, correctAnswer,
         IF allForms[i] # correctAnswer /\ Len(wrongAnswers) < MaxWrongAnswers - 1
         THEN Append(wrongAnswers, allForms[i])
         ELSE wrongAnswers)

\* for (const form of allForms) { if (form !== correctAnswer && length < 3) push }
RECURSIVE SameWordLoop(_, _, _, _)
SameWordLoop(allForms, i, correctAnswer, wrongAnswers) ==
  IF i > Len(allForms) THEN wrongAnswers
  ELSE SameWordLoop(allForms, i + 1, correctAnswer,
         IF allForms[i] # correctAnswer /\ Len(wrongAnswers) < MaxWrongAnswers
         THEN Append(wrongAnswers, allForms[i])
         ELSE wrongAnswers)

\* OtherWordsLoop stopping one distractor early (length < 2)
RECURSIVE OtherWordsLoop_StopsEarly(_, _, _, _, _)
OtherWordsLoop_StopsEarly(data, w, currentWord, currentForm, wrongAnswers) ==
  IF w >= Len(data) THEN wrongAnswers
  ELSE LET otherWordForm == FormValue(At(data, w), currentForm)
       IN  OtherWordsLoop_StopsEarly(data, w + 1, currentWord, currentForm,
             IF /\ w # currentWord
                /\ Truthy(otherWordForm)
                /\ ~Contains(wrongAnswers, otherWordForm[1])
                /\ Len(wrongAnswers) < MaxWrongAnswers - 1
             THEN Append(wrongAnswers, otherWordForm[1])
             ELSE wrongAnswers)

\* OtherWordsLoop without the test of otherWordForm for emptiness
RECURSIVE OtherWordsLoop_KeepsEmpty(_, _, _, _, _)
OtherWordsLoop_KeepsEmpty(data, w, currentWord, currentForm, wrongAnswers) ==
  IF w >= Len(data) THEN wrongAnswers
  ELSE LET otherWordForm == FormValue(At(data, w), currentForm)
       IN  OtherWordsLoop_KeepsEmpty(data, w + 1, currentWord, currentForm,
             IF /\ w # currentWord
                /\ otherWordForm # None
                /\ ~Contains(wrongAnswers, otherWordForm[1])
                /\ Len(wrongAnswers) < MaxWrongAnswers
             THEN Append(wrongAnswers, otherWordForm[1])
             ELSE wrongAnswers)

\* for (const word of wordsData) { if (word !== currentWord) { ... } }
\* currentWord is the index of the current verb in data: the verb entries are
\* distinct objects, so word !== currentWord compares positions.
RECURSIVE OtherWordsLoop(_, _, _, _, _)
OtherWordsLoop(data, w, currentWord, currentForm, wrongAnswers) ==
  IF w >= Len(data) THEN wrongAnswers
  ELSE LET otherWordForm == FormValue(At(data, w), currentForm)
       IN  OtherWordsLoop(data, w + 1, currentWord, currentForm,
             IF /\ w # currentWord
                /\ Truthy(otherWordForm)
                /\ ~Contains(wrongAnswers, otherWordForm[1])
                /\ Len(wrongAnswers) < MaxWrongAnswers
             THEN Append(wrongAnswers, otherWordForm[1])
             ELSE wrongAnswers)

generateWrongAnswers(correctAnswer, currentWord, currentForm, data) ==
  LET allForms == ObjectValues(At(data, currentWord))
      sameWord == SameWordLoop(allForms, 1, correctAnswer, <<>>)
      all == IF Len(sameWord) < MaxWrongAnswers
             THEN OtherWordsLoop(data, 0, currentWord, currentForm, sameWord)
             ELSE sameWord
  IN  Slice(all, MaxWrongAnswers)

----------------------------------------------------------------------------
(* Question sequencer: generateQuestionQueue *)

\* Array.from({ length: n }, (_, i) => i)
Indices(n) == [i \in 1..n |-> i - 1]

\* arr.sort(() => Math.random() - 0.5): the comparator is random, so the
\* result is some rearrangement of arr; every rearrangement is allowed for.
Shuffles(arr) ==
  {[i \in 1..Len(arr) |-> arr[p[i]]] : p \in Permutations(1..Len(arr))}

\* for (let formIndex = 0; formIndex < formKeys.length; formIndex++) push
WordBlock(wordIndex, formIndices) ==
  [j \in 1..Len(formIndices) |-> [wordIndex |-> wordIndex, formIndex |-> formIndices[j]]]

\* SequentialLoop with the inner bound formIndex < formKeys.length - 1
RECURSIVE SequentialLoop_SkipsLastForm(_, _)
SequentialLoop_SkipsLastForm(data, wordIndex) ==
  IF wordIndex >= Len(data) THEN <<>>
  ELSE WordBlock(wordIndex, Indices(Len(ObjectKeys(At(data, wordIndex))) - 1))
         \o SequentialLoop_SkipsLastForm(data, wordIndex + 1)

\* for (let wordIndex = 0; wordIndex < wordsData.length; wordIndex++) ...
RECURSIVE SequentialLoop(_, _)
SequentialLoop(data, wordIndex) ==
  IF wordIndex >= Len(data) THEN <<>>
  ELSE WordBlock(wordIndex, Indices(Len(ObjectKeys(At(data, wordIndex)))))
         \o SequentialLoop(data, wordIndex + 1)

\* for (const wordIndex of shuffledWordIndices) { shuffle forms; push all }
RECURSIVE WordRandomLoop(_, _)
WordRandomLoop(data, shuffledWordIndices) ==
  IF shuffledWordIndices = <<>> THEN {<<>>}
  ELSE LET wordIndex == Head(shuffledWordIndices)
           formKeys == ObjectKeys(At(data, wordIndex))
       IN  {WordBlock(wordIndex, shuffledFormIndices) \o rest :
              shuffledFormIndices \in Shuffles(Indices(Len(formKeys))),
              rest \in WordRandomLoop(data, Tail(shuffledWordIndices))}

\* The set of queues a call can return when the component holds the store
\* data and the mode mode (both are read from the render's closure).
generateQuestionQueue(data, mode) ==
  IF Len(data) = 0 THEN {<<>>}
  ELSE IF mode = "sequential" THEN {SequentialLoop(data, 0)}
  ELSE IF mode = "word-random"
       THEN UNION {WordRandomLoop(data, shuffledWordIndices) :
                     shuffledWordIndices \in Shuffles(Indices(Len(data)))}
  ELSE IF mode = "fully-random" THEN Shuffles(SequentialLoop(data, 0))
  ELSE {<<>>}

----------------------------------------------------------------------------
(* The ArabicSarfGame component: rendered state and derived values *)

\* the state a render of the component sees
Cur ==
  [wordsData |-> wordsData, loading |-> loading, error |-> error,
   currentWordIndex |-> currentWordIndex, currentFormIndex |-> currentFormIndex,
   score |-> score, totalQuestions |-> totalQuestions,
   selectedAnswer |-> selectedAnswer, showResult |-> showResult,
   gameComplete |-> gameComplete, choices |-> choices, timeLeft |-> timeLeft,
   bombExploded |-> bombExploded, showBombWarning |-> showBombWarning,
   gameMode |-> gameMode, questionQueue |-> questionQueue,
   currentQueueIndex |-> currentQueueIndex]

\* the coordinate (wordIndex, formIndex) resolved against the store, or null
Resolve(S, wordIndex, formIndex) ==
  IF ~InRange(S.wordsData, wordIndex) THEN None
  ELSE LET formKeys == ObjectKeys(At(S.wordsData, wordIndex))
       IN  IF ~InRange(formKeys, formIndex) \/ At(formKeys, formIndex) = "" THEN None
           ELSE Some([wordIndex |-> wordIndex, formIndex |-> formIndex,
                      formKey |-> At(formKeys, formIndex)])

getCurrentQuestion(S) ==
  IF Len(S.wordsData) = 0 THEN None
  ELSE IF S.gameMode # "sequential" /\ Len(S.questionQueue) > 0
       THEN IF ~InRange(S.questionQueue, S.currentQueueIndex) THEN None
            ELSE LET current == At(S.questionQueue, S.currentQueueIndex)
                 IN  Resolve(S, current.wordIndex, current.formIndex)
       ELSE Resolve(S, S.currentWordIndex, S.currentFormIndex)

\* currentWord && currentFormKey ? currentWord.forms[currentFormKey] : undefined
correctAnswerOf(S) ==
  LET q == getCurrentQuestion(S)
  IN  IF q = None THEN None
      ELSE FormValue(At(S.wordsData, q[1].wordIndex), q[1].formKey)

\* which of the component's screens a render returns
Screen(S) ==
  IF S.loading THEN "loading"
  ELSE IF S.error # None THEN "error"
  ELSE IF S.bombExploded THEN "bomb"
  ELSE IF S.gameComplete THEN "complete"
  ELSE IF Len(S.wordsData) = 0 \/ ~Truthy(correctAnswerOf(S)) THEN "preparing"
  ELSE "game"

\* the {score}/{totalQuestions} a render puts on the screen, if it shows one:
\* "Previous score" of the bomb screen, "Your Score" of the completion screen
\* and the score line of the game screen
ScoreShown(S) ==
  IF Screen(S) \in {"bomb", "complete", "game"}
  THEN Some(<<S.score, S.totalQuestions>>)
  ELSE None

----------------------------------------------------------------------------
(* Effects *)

\* dependency list of the timer effect
TimerDeps(S) == <<S.timeLeft, S.showResult, S.gameComplete, S.bombExploded, S.loading>>

\* TimerRuns without the test timeLeft > 0
TimerRuns_AtZero(S) ==
  ~S.showResult /\ ~S.gameComplete /\ ~S.bombExploded /\ ~S.loading

\* TimerRuns without the test !gameComplete
TimerRuns_IgnoresComplete(S) ==
  ~S.showResult /\ ~S.bombExploded /\ S.timeLeft > 0 /\ ~S.loading

\* if (!showResult && !gameComplete && !bombExploded && timeLeft > 0 && !loading)
TimerRuns(S) ==
  ~S.showResult /\ ~S.gameComplete /\ ~S.bombExploded /\ S.timeLeft > 0 /\ ~S.loading

\* Explodes testing showResult instead of !showResult
Explodes_WhenRevealed(S) ==
  ~TimerRuns(S) /\ S.timeLeft = 0 /\ S.showResult /\ ~S.bombExploded /\ ~S.loading

\* else if (timeLeft === 0 && !showResult && !bombExploded && !loading)
Explodes(S) ==
  ~TimerRuns(S) /\ S.timeLeft = 0 /\ ~S.showResult /\ ~S.bombExploded /\ ~S.loading

\* dependency list of the choices effect without the counters and the
\* values derived from them
ChoiceDeps_WithoutCoordinate(S) ==
  <<S.gameComplete, S.bombExploded, S.gameMode, S.wordsData>>

\* dependency list of the choices effect (currentWord is compared by identity)
ChoiceDeps(S) ==
  LET q == getCurrentQuestion(S)
  IN  <<S.currentWordIndex, S.currentFormIndex, S.currentQueueIndex, S.gameComplete,
        S.bombExploded, S.gameMode, S.wordsData,
        IF q = None THEN None ELSE Some(q[1].wordIndex),
        correctAnswerOf(S),
        IF q = None THEN None ELSE Some(q[1].formKey)>>

\* if (!gameComplete && !bombExploded && wordsData.length > 0 && currentWord
\*     && correctAnswer && currentFormKey)
ChoicesCond(S) ==
  /\ ~S.gameComplete /\ ~S.bombExploded /\ Len(S.wordsData) > 0
  /\ getCurrentQuestion(S) # None
  /\ Truthy(correctAnswerOf(S))

\* [correctAnswer, ...wrongAnswers].sort(() => Math.random() - 0.5)
ShuffledChoices(S) ==
  LET q == getCurrentQuestion(S)[1]
      correctAnswer == correctAnswerOf(S)[1]
  IN  Shuffles(<<correctAnswer>> \o
                 generateWrongAnswers(correctAnswer, q.wordIndex, q.formKey, S.wordsData))

\* RunEffects whose choices effect leaves out setTimeLeft(15)
RECURSIVE RunEffects_KeepsTimeLeft(_, _, _)
RunEffects_KeepsTimeLeft(P, S, T) ==
  LET timerChanged == TimerDeps(S) # TimerDeps(P)
      T1 == IF ~timerChanged THEN T
            ELSE IF TimerRuns(S)
                 THEN Some([timeLeft |-> S.timeLeft])
                 ELSE None
      S1 == IF timerChanged /\ Explodes(S)
            THEN [S EXCEPT !.bombExploded = TRUE]
            ELSE S
      updates == IF ChoiceDeps(S) # ChoiceDeps(P) /\ ChoicesCond(S)
                 THEN {[S1 EXCEPT !.choices = c, !.showBombWarning = FALSE] :
                         c \in ShuffledChoices(S)}
                 ELSE {S1}
  IN  UNION {IF S2 = S THEN {[state |-> S, timer |-> T1]}
             ELSE RunEffects_KeepsTimeLeft(S, S2, T1) : S2 \in updates}

\* The effects that follow a render S whose previous render was P, repeated
\* until a render schedules no further update.  T is the timer effect's
\* pending timeout.  The result is the set of [state, timer] the component
\* can settle in (the choices shuffle is random).
RECURSIVE RunEffects(_, _, _)
RunEffects(P, S, T) ==
  LET timerChanged == TimerDeps(S) # TimerDeps(P)
      T1 == IF ~timerChanged THEN T                 \* effect not re-run
            ELSE IF TimerRuns(S)                    \* clearTimeout, setTimeout
                 THEN Some([timeLeft |-> S.timeLeft])
                 ELSE None
      S1 == IF timerChanged /\ Explodes(S)
            THEN [S EXCEPT !.bombExploded = TRUE]
            ELSE S
      updates == IF ChoiceDeps(S) # ChoiceDeps(P) /\ ChoicesCond(S)
                 THEN {[S1 EXCEPT !.choices = c, !.timeLeft = TimeBudget,
                                  !.showBombWarning = FALSE] : c \in ShuffledChoices(S)}
                 ELSE {S1}
  IN  UNION {IF S2 = S THEN {[state |-> S, timer |-> T1]} ELSE RunEffects(S, S2, T1) :
               S2 \in updates}

\* the component commits state R with timer effect timeout T and pending
\* auto-advance timeouts P
Commit(R, T, P) ==
  /\ wordsData' = R.wordsData
  /\ loading' = R.loading
  /\ error' = R.error
  /\ currentWordIndex' = R.currentWordIndex
  /\ currentFormIndex' = R.currentFormIndex
  /\ score' = R.score
  /\ totalQuestions' = R.totalQuestions
  /\ selectedAnswer' = R.selectedAnswer
  /\ showResult' = R.showResult
  /\ gameComplete' = R.gameComplete
  /\ choices' = R.choices
  /\ timeLeft' = R.timeLeft
  /\ bombExploded' = R.bombExploded
  /\ showBombWarning' = R.showBombWarning
  /\ gameMode' = R.gameMode
  /\ questionQueue' = R.questionQueue
  /\ currentQueueIndex' = R.currentQueueIndex
  /\ timer' = T
  /\ pending' = P
  /\ UNCHANGED ret

\* a handler turned render P into S: run the effects and commit the outcome
Settle(P, S, T, pend) ==
  \E out \in RunEffects(P, S, T) : Commit(out.state, out.timer, pend)

----------------------------------------------------------------------------
(* Operations of the component *)

\* the vocabulary documents the fetch of ./data/tafeel.json delivers in Spec:
\* two verbs of one form, one verb of two forms
GameStores ==
  {<<MkWord(<<"a">>), MkWord(<<"c">>)>>, <<MkWord(<<"a", "b">>)>>}

\* the document it delivers in SpecModes: two verbs of two forms
ModeStores ==
  {<<MkWord(<<"a", "b">>), MkWord(<<"c", "d">>)>>}

\* the strings a choice button can carry
Answers == {"a", "b", "c", "d"}

\* err.message of a rejected fetch, of a response that is not ok and of a body
\* that is not JSON, and the fallback text for a thrown non-Error
FetchErrors ==
  {"Failed to fetch", "Failed to load data: Not Found", "Unexpected token < in JSON",
   "Failed to load data"}

NoCall == [fn |-> "none"]

\* the useState initial values other than wordsData and loading
InitSession ==
  /\ error = None
  /\ currentWordIndex = 0
  /\ currentFormIndex = 0
  /\ score = 0
  /\ totalQuestions = 0
  /\ selectedAnswer = None
  /\ showResult = FALSE
  /\ gameComplete = FALSE
  /\ choices = <<>>
  /\ timeLeft = TimeBudget
  /\ bombExploded = FALSE
  /\ showBombWarning = FALSE
  /\ gameMode = "sequential"
  /\ questionQueue = <<>>
  /\ currentQueueIndex = 0
  /\ timer = None
  /\ pending = <<>>
  /\ ret = NoCall

Init ==
  /\ wordsData = <<>>
  /\ loading = TRUE
  /\ InitSession

\* loadWordsData, fetch and response.json() succeeded
\* loadWordsData, fetch fulfilled, without the finally block
LoadSuccess_KeepsLoading(data) ==
  /\ loading
  /\ Settle(Cur, [Cur EXCEPT !.wordsData = data, !.error = None], timer, pending)

LoadSuccess(data) ==
  /\ loading
  /\ Settle(Cur, [Cur EXCEPT !.wordsData = data, !.error = None, !.loading = FALSE],
            timer, pending)

\* loadWordsData without the finally block
LoadFail_KeepsLoading(reason) ==
  /\ loading
  /\ Settle(Cur, [Cur EXCEPT !.error = Some(reason)], timer, pending)

\* loadWordsData, fetch rejected, !response.ok or malformed JSON
LoadFail(reason) ==
  /\ loading
  /\ Settle(Cur, [Cur EXCEPT !.error = Some(reason), !.loading = FALSE], timer, pending)

\* window.location.reload() of the error screen: the page starts over
Reload ==
  /\ Screen(Cur) = "error"
  /\ Commit([Cur EXCEPT !.wordsData = <<>>, !.loading = TRUE, !.error = None,
                        !.currentWordIndex = 0, !.currentFormIndex = 0,
                        !.score = 0, !.totalQuestions = 0, !.selectedAnswer = None,
                        !.showResult = FALSE, !.gameComplete = FALSE,
                        !.choices = <<>>, !.timeLeft = TimeBudget,
                        !.bombExploded = FALSE, !.showBombWarning = FALSE,
                        !.gameMode = "sequential", !.questionQueue = <<>>,
                        !.currentQueueIndex = 0],
            None, <<>>)

\* TimerTick taking two seconds off the countdown
TimerTick_TakesTwo ==
  /\ timer # None
  /\ \A i \in 1..Len(pending) : (pending[i].ticks + 1) * TickDelay < pending[i].delay
  /\ LET t == timer[1].timeLeft
     IN  Settle(Cur, [Cur EXCEPT !.timeLeft = t - 2,
                                 !.showBombWarning = IF t <= WarningThreshold THEN TRUE ELSE @],
                None, [i \in 1..Len(pending) |-> [pending[i] EXCEPT !.ticks = @ + 1]])

\* The callback of the timer effect's setTimeout runs, 1000 ms after the
\* effect set it.  A pending auto-advance was scheduled before this timeout
\* (an answer stops the timer), so it is still pending only if its delay is
\* longer than the ticks it has then lived through.
TimerTick ==
  /\ timer # None
  /\ \A i \in 1..Len(pending) : (pending[i].ticks + 1) * TickDelay < pending[i].delay
  /\ LET t == timer[1].timeLeft
     IN  Settle(Cur, [Cur EXCEPT !.timeLeft = t - 1,
                                 !.showBombWarning = IF t <= WarningThreshold THEN TRUE ELSE @],
                None, [i \in 1..Len(pending) |-> [pending[i] EXCEPT !.ticks = @ + 1]])

\* The branch handleNext takes.  handleNext reads gameMode, currentQueueIndex,
\* questionQueue, wordsData, currentWordIndex and currentFormIndex from the
\* render S it was created in, so the branch is fixed when the timeout is set.
Closure(S) ==
  IF S.gameMode # "sequential"
  THEN IF S.currentQueueIndex < Len(S.questionQueue) - 1
       THEN "nextInQueue"
       ELSE "complete"
  ELSE LET formKeys == ObjectKeys(At(S.wordsData, S.currentWordIndex))
       IN  IF S.currentFormIndex < Len(formKeys) - 1
           THEN "nextForm"
           ELSE IF S.currentWordIndex < Len(S.wordsData) - 1
                THEN "nextWord"
                ELSE "complete"

\* handleNext whose move to the next word keeps the form counter
handleNext_KeepsFormIndex(S, c) ==
  LET S0 == [S EXCEPT !.selectedAnswer = None, !.showResult = FALSE]
  IN  CASE c = "nextInQueue" -> [S0 EXCEPT !.currentQueueIndex = @ + 1]
        [] c = "nextForm" -> [S0 EXCEPT !.currentFormIndex = @ + 1]
        [] c = "nextWord" -> [S0 EXCEPT !.currentWordIndex = @ + 1]
        [] c = "complete" -> [S0 EXCEPT !.gameComplete = TRUE]

\* handleNext of a render with closure c, run when the state is S: the
\* setters with an updater (prev => prev + 1) act on the state of that moment
handleNext(S, c) ==
  LET S0 == [S EXCEPT !.selectedAnswer = None, !.showResult = FALSE]
  IN  CASE c = "nextInQueue" -> [S0 EXCEPT !.currentQueueIndex = @ + 1]
        [] c = "nextForm" -> [S0 EXCEPT !.currentFormIndex = @ + 1]
        [] c = "nextWord" -> [S0 EXCEPT !.currentWordIndex = @ + 1, !.currentFormIndex = 0]
        [] c = "complete" -> [S0 EXCEPT !.gameComplete = TRUE]

RemoveAt(arr, i) == SubSeq(arr, 1, i - 1) \o SubSeq(arr, i + 1, Len(arr))

\* The i-th pending auto-advance timeout fires: () => { handleNext(); }
\* It can fire before an older one only if it is due earlier: the older one
\* was scheduled at least 1000 ms earlier for each tick it has seen more.
AutoAdvance(i) ==
  /\ i \in 1..Len(pending)
  /\ \A j \in 1..(i - 1) :
        pending[j].delay - pending[i].delay > (pending[j].ticks - pending[i].ticks) * TickDelay
  /\ Settle(Cur, handleNext(Cur, pending[i].closure), timer, RemoveAt(pending, i))

\* handleAnswerSelect counting a question only when the answer is wrong
handleAnswerSelect_CountsWrongOnly(S, answer) ==
  [S EXCEPT !.selectedAnswer = Some(answer), !.showResult = TRUE,
            !.totalQuestions = IF Some(answer) = correctAnswerOf(S) THEN @ ELSE @ + 1,
            !.score = IF Some(answer) = correctAnswerOf(S) THEN @ + 1 ELSE @]

\* handleAnswerSelect scoring every answer
handleAnswerSelect_ScoresAll(S, answer) ==
  [S EXCEPT !.selectedAnswer = Some(answer), !.showResult = TRUE,
            !.totalQuestions = @ + 1, !.score = @ + 1]

handleAnswerSelect(S, answer) ==
  [S EXCEPT !.selectedAnswer = Some(answer), !.showResult = TRUE,
            !.totalQuestions = @ + 1,
            !.score = IF Some(answer) = correctAnswerOf(S) THEN @ + 1 ELSE @]

\* AdvanceDelay with the two delays exchanged
AdvanceDelay_Exchanged(S, answer) ==
  IF Some(answer) = correctAnswerOf(S) THEN IncorrectDelay ELSE CorrectDelay

\* delay of the auto-advance scheduled by an answer
AdvanceDelay(S, answer) ==
  IF Some(answer) = correctAnswerOf(S) THEN CorrectDelay ELSE IncorrectDelay

\* a choice button is clicked, handleAnswerSelect without its first line
HandleAnswerSelect_NoEarlyReturn(answer) ==
  /\ Screen(Cur) = "game"
  /\ Contains(choices, answer)
  /\ Len(pending) < MaxPending
  /\ Settle(Cur, handleAnswerSelect(Cur, answer), timer,
            Append(pending, [delay |-> AdvanceDelay(Cur, answer), ticks |-> 0,
                             closure |-> Closure(Cur)]))

\* a choice button is clicked
HandleAnswerSelect(answer) ==
  /\ Screen(Cur) = "game"
  /\ Contains(choices, answer)
  /\ IF showResult
     THEN UNCHANGED vars                            \* if (showResult) return
     ELSE /\ Len(pending) < MaxPending
          /\ Settle(Cur, handleAnswerSelect(Cur, answer), timer,
                    Append(pending, [delay |-> AdvanceDelay(Cur, answer), ticks |-> 0,
                                     closure |-> Closure(Cur)]))

\* ClearedSession without setTotalQuestions(0)
ClearedSession_KeepsTotal(S) ==
  [S EXCEPT !.score = 0, !.selectedAnswer = None,
            !.showResult = FALSE, !.gameComplete = FALSE, !.timeLeft = TimeBudget,
            !.bombExploded = FALSE, !.showBombWarning = FALSE]

\* the session part of changeGameMode and resetGame
ClearedSession(S) ==
  [S EXCEPT !.score = 0, !.totalQuestions = 0, !.selectedAnswer = None,
            !.showResult = FALSE, !.gameComplete = FALSE, !.timeLeft = TimeBudget,
            !.bombExploded = FALSE, !.showBombWarning = FALSE]

\* changeGameMode without setScore(0)
changeGameMode_KeepsScore(S, newMode) ==
  IF newMode # "sequential"
  THEN {[ClearedSession([S EXCEPT !.gameMode = newMode, !.questionQueue = newQueue,
                                  !.currentQueueIndex = 0]) EXCEPT !.score = S.score] :
          newQueue \in generateQuestionQueue(S.wordsData, S.gameMode)}
  ELSE {[ClearedSession([S EXCEPT !.gameMode = newMode, !.currentWordIndex = 0,
                                  !.currentFormIndex = 0, !.currentQueueIndex = 0])
           EXCEPT !.score = S.score]}

\* the states changeGameMode(newMode) can produce from S; generateQuestionQueue
\* reads gameMode from the render's closure, which setGameMode has not changed
changeGameMode(S, newMode) ==
  IF newMode # "sequential"
  THEN {ClearedSession([S EXCEPT !.gameMode = newMode, !.questionQueue = newQueue,
                                 !.currentQueueIndex = 0]) :
          newQueue \in generateQuestionQueue(S.wordsData, S.gameMode)}
  ELSE {ClearedSession([S EXCEPT !.gameMode = newMode, !.currentWordIndex = 0,
                                 !.currentFormIndex = 0, !.currentQueueIndex = 0])}

\* a mode button of the game screen is clicked
ChangeGameMode(newMode) ==
  /\ Screen(Cur) = "game"
  /\ \E S \in changeGameMode(Cur, newMode) : Settle(Cur, S, timer, pending)

\* resetGame without setCurrentQueueIndex(0)
resetGame_KeepsQueueIndex(S) ==
  IF S.gameMode # "sequential"
  THEN {ClearedSession([S EXCEPT !.questionQueue = newQueue]) :
          newQueue \in generateQuestionQueue(S.wordsData, S.gameMode)}
  ELSE {ClearedSession([S EXCEPT !.currentWordIndex = 0, !.currentFormIndex = 0])}

resetGame(S) ==
  IF S.gameMode # "sequential"
  THEN {ClearedSession([S EXCEPT !.questionQueue = newQueue, !.currentQueueIndex = 0]) :
          newQueue \in generateQuestionQueue(S.wordsData, S.gameMode)}
  ELSE {ClearedSession([S EXCEPT !.currentWordIndex = 0, !.currentFormIndex = 0])}

\* "Start Over" of the bomb screen or "Play Again" of the completion screen
ResetGame ==
  /\ Screen(Cur) \in {"bomb", "complete"}
  /\ \E S \in resetGame(Cur) : Settle(Cur, S, timer, pending)

Next ==
  \/ \E data \in GameStores : LoadSuccess(data)
  \/ \E reason \in FetchErrors : LoadFail(reason)
  \/ Reload
  \/ TimerTick
  \/ \E i \in 1..MaxPending : AutoAdvance(i)
  \/ \E answer \in Answers : HandleAnswerSelect(answer)
  \/ \E newMode \in Modes : ChangeGameMode(newMode)
  \/ ResetGame

Spec == Init /\ [][Next]_vars

----------------------------------------------------------------------------
(* The mode buttons on a store of two verbs with two forms, for a learner  *)
(* who never answers: load, mode changes, timer ticks, time-out and reset. *)

NextModes ==
  \/ \E data \in ModeStores : LoadSuccess(data)
  \/ \E newMode \in Modes : ChangeGameMode(newMode)
  \/ TimerTick
  \/ ResetGame

SpecModes == Init /\ [][NextModes]_vars

----------------------------------------------------------------------------
(* generateQuestionQueue called directly, on every store of the bounds *)

\* form counts of the verbs of a store: every list of counts >= 1 that sums
\* to at most maxCells
RECURSIVE FormCounts(_)
FormCounts(maxCells) ==
  IF maxCells <= 0 THEN {<<>>}
  ELSE {<<>>} \cup UNION {{<<n>> \o rest : rest \in FormCounts(maxCells - n)} :
                           n \in 1..maxCells}

\* a store whose verb w has counts[w] forms (the values play no part)
StoreOfCounts(counts) ==
  [w \in 1..Len(counts) |-> MkWord([i \in 1..counts[w] |-> "a"])]

\* every store whose verbs have at most maxCells forms in all
QueueStores(maxCells) ==
  {StoreOfCounts(counts) : counts \in FormCounts(maxCells) \ {<<>>}}

InitQueue ==
  /\ wordsData \in QueueStores(MaxQueueCells)
  /\ loading = FALSE
  /\ InitSession

\* setGameMode(newMode), before the call
SetGameMode(newMode) ==
  /\ ret = NoCall
  /\ gameMode' = newMode
  /\ UNCHANGED <<wordsData, loading, error, currentWordIndex, currentFormIndex, score,
                 totalQuestions, selectedAnswer, showResult, gameComplete, choices,
                 timeLeft, bombExploded, showBombWarning, questionQueue,
                 currentQueueIndex, timer, pending, ret>>

CallGenerateQuestionQueue ==
  /\ ret = NoCall
  /\ \E queue \in generateQuestionQueue(wordsData, gameMode) :
       ret' = [fn |-> "generateQuestionQueue", mode |-> gameMode, queue |-> queue]
  /\ UNCHANGED <<wordsData, loading, error, currentWordIndex, currentFormIndex, score,
                 totalQuestions, selectedAnswer, showResult, gameComplete, choices,
                 timeLeft, bombExploded, showBombWarning, gameMode, questionQueue,
                 currentQueueIndex, timer, pending>>

NextQueue ==
  \/ \E newMode \in Modes : SetGameMode(newMode)
  \/ CallGenerateQuestionQueue

SpecQueue == InitQueue /\ [][NextQueue]_vars

----------------------------------------------------------------------------
(* generateWrongAnswers called directly, as the choices effect calls it,   *)
(* on every store of the bounds                                            *)

FormValues == {"", "a", "b", "c", "d"}

\* the verbs of the stores of four verbs with two forms
WideRows == {<<"a", "b">>, <<"b", "a">>, <<"c", "d">>, <<"d", "c">>, <<"a", "a">>, <<"", "c">>}

\* the verbs of the stores of two verbs with four forms
TallRows == {<<"a", "b", "c", "d">>, <<"d", "c", "b", "a">>, <<"a", "b", "b", "a">>,
             <<"", "a", "c", "c">>}

\* every store of at most maxCells cells, the stores of four verbs with two
\* forms and the stores of two verbs with four forms
DistractorStores(maxCells) ==
  UNION {StoresOfShape(s[1], s[2], FormValues) : s \in Shapes(maxCells)}
    \cup {[w \in 1..4 |-> MkWord(rows[w])] : rows \in [1..4 -> WideRows]}
    \cup {[w \in 1..2 |-> MkWord(rows[w])] : rows \in [1..2 -> TallRows]}

InitDistractors ==
  /\ wordsData \in DistractorStores(MaxCells)
  /\ loading = FALSE
  /\ InitSession

\* generateWrongAnswers(correctAnswer, currentWord, currentFormKey, wordsData)
\* for the verb wordIndex and its form formIndex, whose value is not empty
CallGenerateWrongAnswers(wordIndex, formIndex) ==
  /\ InRange(wordsData, wordIndex)
  /\ InRange(At(wordsData, wordIndex).forms, formIndex)
  /\ LET currentWord == At(wordsData, wordIndex)
         currentFormKey == At(ObjectKeys(currentWord), formIndex)
         correctAnswer == FormValue(currentWord, currentFormKey)
     IN  /\ Truthy(correctAnswer)
         /\ ret' = [fn |-> "generateWrongAnswers", wordIndex |-> wordIndex,
                    formIndex |-> formIndex, currentFormKey |-> currentFormKey,
                    correctAnswer |-> correctAnswer[1],
                    wrongAnswers |-> generateWrongAnswers(correctAnswer[1], wordIndex,
                                                          currentFormKey, wordsData)]
  /\ UNCHANGED <<wordsData, loading, error, currentWordIndex, currentFormIndex, score,
                 totalQuestions, selectedAnswer, showResult, gameComplete, choices,
                 timeLeft, bombExploded, showBombWarning, gameMode, questionQueue,
                 currentQueueIndex, timer, pending>>

NextDistractors ==
  \E wordIndex \in 0..(MaxCells - 1), formIndex \in 0..(MaxCells - 1) :
    CallGenerateWrongAnswers(wordIndex, formIndex)

SpecDistractors == InitDistractors /\ [][NextDistractors]_vars

----------------------------------------------------------------------------
(* Properties of the question sequencer *)

\* all verbs of the store have the form keys of the first verb
SameFormKeys(data) ==
  \A w \in 1..Len(data) : ObjectKeys(data[w]) = ObjectKeys(data[1])

\* formsPerWord = Object.keys(wordsData[0].forms).length
formsPerWord(data) == IF Len(data) > 0 THEN Len(ObjectKeys(data[1])) ELSE 0

CrossProduct(data) ==
  {[wordIndex |-> w, formIndex |-> f] :
     w \in 0..(Len(data) - 1), f \in 0..(formsPerWord(data) - 1)}

Occurrences(arr, v) == Cardinality({i \in 1..Len(arr) : arr[i] = v})

\* the coordinates of one verb occupy consecutive positions of the queue
Grouped(queue) ==
  \A i, k \in 1..Len(queue) :
    (i < k /\ queue[i].wordIndex = queue[k].wordIndex)
      => \A j \in i..k : queue[j].wordIndex = queue[i].wordIndex

\* C1: for a non-empty store whose verbs share their form keys, the queue
\* generateQuestionQueue returns in any of the three modes holds every
\* (wordIndex, formIndex) pair of the cross product exactly once, and its
\* length is wordCount x formsPerWord.
C1_QueueIsPermutation ==
  (ret.fn = "generateQuestionQueue" /\ Len(wordsData) > 0 /\ SameFormKeys(wordsData))
    => /\ Len(ret.queue) = Len(wordsData) * formsPerWord(wordsData)
       /\ \A c \in CrossProduct(wordsData) : Occurrences(ret.queue, c) = 1
       /\ \A i \in 1..Len(ret.queue) : ret.queue[i] \in CrossProduct(wordsData)

C1_Witness ==
  /\ ret.fn = "generateQuestionQueue"
  /\ ret.mode = "fully-random"
  /\ Len(wordsData) = 2 /\ SameFormKeys(wordsData) /\ formsPerWord(wordsData) = 2
  /\ ~Grouped(ret.queue)

\* the coordinate after (wordIndex, formIndex) in lexicographic order, if any
LexSuccessor(data, wordIndex, formIndex) ==
  IF ~InRange(data, wordIndex) THEN None
  ELSE IF formIndex < Len(ObjectKeys(At(data, wordIndex))) - 1
       THEN Some(<<wordIndex, formIndex + 1>>)
       ELSE IF wordIndex < Len(data) - 1 THEN Some(<<wordIndex + 1, 0>>) ELSE None

\* C2: in sequential mode the questions come in lexicographic (wordIndex,
\* formIndex) order, the same in every play-through: whenever the position
\* of a sequential session changes, it moves to the first coordinate (a new
\* play-through) or to the lexicographic successor of the previous coordinate.
C2_SequentialOrder ==
  [][(/\ gameMode = "sequential" /\ gameMode' = "sequential"
      /\ ~loading /\ ~loading'
      /\ <<currentWordIndex', currentFormIndex'>> # <<currentWordIndex, currentFormIndex>>)
     => \/ <<currentWordIndex', currentFormIndex'>> = <<0, 0>>
        \/ Some(<<currentWordIndex', currentFormIndex'>>)
             = LexSuccessor(wordsData, currentWordIndex, currentFormIndex)]_vars

\* C3: in word-random mode with an active queue, the queue keeps the forms
\* of each verb together.
C3_WordRandomGrouped ==
  (gameMode = "word-random" /\ Screen(Cur) = "game" /\ Len(questionQueue) > 0)
    => Grouped(questionQueue)

\* C4: a switch to fully-random mode from any mode shuffles the whole cross
\* product: with at least 2 verbs and 2 forms, changeGameMode('fully-random')
\* can install a queue that is not the sequential order and interleaves the
\* forms of different verbs.
C4_FullyRandomShuffles ==
  (Screen(Cur) = "game" /\ Len(wordsData) >= 2 /\ formsPerWord(wordsData) >= 2)
    => \E queue \in Shuffles(SequentialLoop(wordsData, 0)) :
         /\ queue # SequentialLoop(wordsData, 0)
         /\ ~Grouped(queue)
         /\ ENABLED (ChangeGameMode("fully-random") /\ questionQueue' = queue)

----------------------------------------------------------------------------
(* Properties of the distractor generator *)

\* C5: the choice set [correctAnswer] + generateWrongAnswers(...) holds the
\* correct answer exactly once: no distractor equals the correct answer.
C5_CorrectAnswerOnce ==
  ret.fn = "generateWrongAnswers"
    => Occurrences(<<ret.correctAnswer>> \o ret.wrongAnswers, ret.correctAnswer) = 1

\* C6: the distractors generateWrongAnswers returns are pairwise distinct.
C6_DistractorsDistinct ==
  ret.fn = "generateWrongAnswers"
    => \A i, j \in 1..Len(ret.wrongAnswers) :
         i # j => ret.wrongAnswers[i] # ret.wrongAnswers[j]

\* the values at each form key are non-empty and differ from verb to verb
ColumnsDistinct(data) ==
  \A f \in 1..formsPerWord(data) :
    \A v, w \in 1..Len(data) :
      /\ data[v].forms[f].val # ""
      /\ v # w => data[v].forms[f].val # data[w].forms[f].val

\* C7 as stated: with at least 4 verbs that share their form keys,
\* generateWrongAnswers returns exactly 3 distractors.
C7_ThreeDistractors ==
  (ret.fn = "generateWrongAnswers" /\ Len(wordsData) >= 4 /\ SameFormKeys(wordsData))
    => Len(ret.wrongAnswers) = MaxWrongAnswers

\* C7 amended: with at least 4 verbs that share their form keys and whose
\* values at each form key are non-empty and pairwise distinct from verb to
\* verb, generateWrongAnswers returns exactly 3 distractors.
C7_ThreeDistractorsDistinctColumns ==
  (/\ ret.fn = "generateWrongAnswers" /\ Len(wordsData) >= 4
   /\ SameFormKeys(wordsData) /\ ColumnsDistinct(wordsData))
    => Len(ret.wrongAnswers) = MaxWrongAnswers

C7_Witness ==
  /\ ret.fn = "generateWrongAnswers"
  /\ Len(wordsData) = 4 /\ formsPerWord(wordsData) = 2
  /\ SameFormKeys(wordsData) /\ ColumnsDistinct(wordsData)
  /\ Len(ret.wrongAnswers) = MaxWrongAnswers
  /\ Contains(At(wordsData, ret.wordIndex).forms, [key |-> "k1", val |-> ret.wrongAnswers[1]])
  /\ ~Contains(ObjectValues(At(wordsData, ret.wordIndex)), ret.wrongAnswers[2])

Min(a, b) == IF a < b THEN a ELSE b

\* C8 as stated: with exactly 1 verb, generateWrongAnswers returns
\* min(3, formsPerWord - 1) distractors.
C8_SingleVerbCount ==
  (ret.fn = "generateWrongAnswers" /\ Len(wordsData) = 1)
    => Len(ret.wrongAnswers) = Min(MaxWrongAnswers, formsPerWord(wordsData) - 1)

\* the forms of the verb whose value differs from the correct answer
DifferingForms(word, correctAnswer) ==
  {i \in 1..Len(word.forms) : word.forms[i].val # correctAnswer}

\* C8 amended: with exactly 1 verb, generateWrongAnswers returns min(3, k)
\* distractors, k being the number of forms of the verb whose value differs
\* from the correct answer (k = formsPerWord - 1 when the values of the verb
\* are pairwise distinct).
C8_SingleVerbCountDiffering ==
  (ret.fn = "generateWrongAnswers" /\ Len(wordsData) = 1)
    => Len(ret.wrongAnswers)
         = Min(MaxWrongAnswers, Cardinality(DifferingForms(wordsData[1], ret.correctAnswer)))

C8_Witness ==
  /\ ret.fn = "generateWrongAnswers"
  /\ Len(wordsData) = 1 /\ formsPerWord(wordsData) = 5
  /\ Cardinality(DifferingForms(wordsData[1], ret.correctAnswer)) = 4
  /\ Len(ret.wrongAnswers) = 3

----------------------------------------------------------------------------
(* Properties of the game state machine *)

\* C9: in every reachable state score <= totalQuestions (questionsAnswered).
C9_ScoreAtMostAnswered == score <= totalQuestions

C9_Witness ==
  /\ totalQuestions = 2 /\ score = 1
  /\ pending # <<>>

\* C10: submitting an answer on an unanswered question records it as
\* selectedAnswer, sets showResult, adds exactly 1 to totalQuestions, adds
\* exactly 1 to score if and only if the answer equals the correct answer of
\* the current coordinate, and leaves the position where it is.  (A
\* submission is the only step that adds a pending auto-advance.)
C10_AnswerSubmission ==
  [][\A answer \in Answers :
       (~showResult /\ Len(pending') > Len(pending) /\ HandleAnswerSelect(answer))
         => /\ selectedAnswer' = Some(answer)
            /\ showResult' = TRUE
            /\ totalQuestions' = totalQuestions + 1
            /\ score' = score + (IF Some(answer) = correctAnswerOf(Cur) THEN 1 ELSE 0)
            /\ UNCHANGED <<currentWordIndex, currentFormIndex, currentQueueIndex,
                           questionQueue, gameMode>>]_vars

C10_Witness ==
  /\ showResult
  /\ selectedAnswer # None /\ selectedAnswer # correctAnswerOf(Cur)
  /\ totalQuestions = 2 /\ score = 1

\* C11: submitting an answer freezes the timer.  In a revealed state
\* (showResult) no tick is pending; and every step taken there, other than a
\* mode change, leaves bombExploded false, keeps timeLeft while the reveal
\* lasts, and ends the reveal only by firing the auto-advance the submission
\* scheduled (the youngest pending one).
C11_TimerFrozenDuringReveal ==
  [][showResult =>
       /\ timer = None
       /\ \/ /\ ~bombExploded'
             /\ showResult' => timeLeft' = timeLeft
             /\ ~showResult' => pending' = SubSeq(pending, 1, Len(pending) - 1)
          \/ \E newMode \in Modes : ChangeGameMode(newMode)]_vars

\* in the render S a question is on the game screen and no answer has been
\* submitted for it
Unanswered(S) == Screen(S) = "game" /\ ~S.showResult

\* in the render S with timer effect timeout T: an unanswered question has a
\* tick pending for the current timeLeft; timeLeft = 0 on an unanswered
\* question means bombExploded, and conversely
CountdownArmed(S, T) ==
  /\ Unanswered(S) => (S.timeLeft > 0 /\ T = Some([timeLeft |-> S.timeLeft]))
  /\ (S.timeLeft = 0 /\ ~S.showResult /\ ~S.loading) => S.bombExploded
  /\ S.bombExploded => S.timeLeft = 0

\* C12: a question that comes up unanswered (after the load, an advance, a
\* mode change or a reset) has timeLeft = 15; while it is unanswered a tick
\* is pending for the current timeLeft, and timeLeft only ever decreases by a
\* tick, by exactly 1; timeLeft = 0 on an unanswered question means
\* bombExploded, and bombExploded is entered only with timeLeft = 0 (by the
\* tick from 1 to 0).
C12_CountdownAndTimeout ==
  [][/\ CountdownArmed(Cur, timer) /\ CountdownArmed(Cur', timer')
     /\ (/\ Unanswered(Cur')
         /\ ~Unanswered(Cur) \/ getCurrentQuestion(Cur') # getCurrentQuestion(Cur))
          => timeLeft' = TimeBudget
     /\ timeLeft' < timeLeft => (timer # None /\ timeLeft' = timeLeft - 1)
     /\ (~bombExploded /\ bombExploded') => (timeLeft = 1 /\ timeLeft' = 0)]_vars

C12_Witness ==
  /\ bombExploded /\ timeLeft = 0 /\ showBombWarning
  /\ Len(wordsData) > 0 /\ totalQuestions = 1 /\ ~showResult

\* the pointers of the session are inside the store and the queue
PointersInside(S) ==
  /\ InRange(S.wordsData, S.currentWordIndex)
  /\ InRange(ObjectKeys(At(S.wordsData, S.currentWordIndex)), S.currentFormIndex)
  /\ S.gameMode # "sequential" => InRange(S.questionQueue, S.currentQueueIndex)

\* the pointer the mode of the session walks with
Position(S) ==
  IF S.gameMode # "sequential" THEN <<S.currentQueueIndex>>
  ELSE <<S.currentWordIndex, S.currentFormIndex>>

\* C13: with a store loaded, the queue index is below the queue length and
\* the word and form counters are inside the store in every reachable state;
\* and a step that completes the session does not move the position pointer.
C13_NeverPastEnd ==
  [][/\ Len(wordsData') > 0 => PointersInside(Cur')
     /\ (~gameComplete /\ gameComplete') => Position(Cur') = Position(Cur)]_vars

\* C14: whenever the store is loaded and the session is neither completed
\* nor timed out, getCurrentQuestion is non-null: the current position names
\* an existing verb and an existing form key of it.
C14_PositionResolves ==
  (~loading /\ Len(wordsData) > 0 /\ ~gameComplete /\ ~bombExploded)
    => getCurrentQuestion(Cur) # None

\* the session is at the first coordinate of its play order
AtFirstCoordinate(S) ==
  IF S.gameMode # "sequential" THEN S.currentQueueIndex = 0
  ELSE S.currentWordIndex = 0 /\ S.currentFormIndex = 0

\* C15: an auto-advance scheduled in a superseded session never acts on the
\* new one: a loaded session in which no answer has been submitted yet
\* (totalQuestions = 0) and that has not timed out is at its first
\* coordinate, with showResult and gameComplete false.
C15_StaleAdvanceCancelled ==
  (~loading /\ Len(wordsData) > 0 /\ totalQuestions = 0 /\ ~bombExploded)
    => (AtFirstCoordinate(Cur) /\ ~showResult /\ ~gameComplete)

C17_TerminalAbsorbing ==
  [][(Len(wordsData) > 0 /\ (gameComplete \/ bombExploded))
       => \/ UNCHANGED <<gameComplete, bombExploded, score, totalQuestions,
                         currentWordIndex, currentFormIndex, currentQueueIndex>>
          \/ ResetGame]_vars

\* C18: resetGame on a terminal screen clears the counters and derives the
\* play order of the current mode anew: afterwards score and totalQuestions
\* are 0, selectedAnswer is null, showResult, gameComplete and bombExploded
\* are false, timeLeft = 15, the mode is unchanged, the position is the first
\* coordinate and resolves, and in a random mode the queue holds every
\* coordinate of the store exactly once, the forms of each verb together in
\* word-random mode.
C18_ResetGame ==
  [][((gameComplete \/ bombExploded) /\ pending' = pending /\ ResetGame)
       => /\ score' = 0 /\ totalQuestions' = 0
          /\ selectedAnswer' = None /\ ~showResult'
          /\ ~gameComplete' /\ ~bombExploded'
          /\ timeLeft' = TimeBudget /\ ~showBombWarning'
          /\ gameMode' = gameMode
          /\ AtFirstCoordinate(Cur')
          /\ getCurrentQuestion(Cur') # None
          /\ gameMode # "sequential"
               => /\ Len(questionQueue') = Cardinality(CrossProduct(wordsData))
                  /\ \A c \in CrossProduct(wordsData) : Occurrences(questionQueue', c) = 1
                  /\ gameMode = "word-random" => Grouped(questionQueue')]_vars

\* a word-random session completed with two answers, one of them right, on
\* which "Play Again" installs a queue in another order
C18_Witness ==
  /\ gameComplete /\ gameMode = "word-random"
  /\ totalQuestions = 2 /\ score = 1
  /\ ENABLED (/\ ResetGame
              /\ questionQueue' # questionQueue
              /\ score' = 0 /\ totalQuestions' = 0 /\ ~gameComplete')

\* the store is loading, or the session is completed or timed out
TimerInertState(S) == S.loading \/ S.gameComplete \/ S.bombExploded

\* C19: while the store is loading and while the session is completed or
\* timed out, no tick is pending, and a step that stays in loading, or stays
\* in a terminal state, changes neither timeLeft nor bombExploded.
C19_TimerInert ==
  [][/\ TimerInertState(Cur) => timer = None
     /\ TimerInertState(Cur') => timer' = None
     /\ (\/ loading /\ loading'
         \/ (gameComplete \/ bombExploded) /\ (gameComplete' \/ bombExploded'))
          => (timeLeft' = timeLeft /\ bombExploded' = bombExploded)]_vars

C19_Witness ==
  /\ gameComplete /\ ~bombExploded /\ timer = None
  /\ timeLeft > 0 /\ timeLeft < TimeBudget
  /\ pending # <<>>

\* C20: a failed fetch takes the component from loading to the error screen
\* with the reason in error and the store empty; on the error screen every
\* step keeps the error, the reason and the empty store, except the reload,
\* which starts the load over (loading again, no error).
C20_FetchFailure ==
  [][/\ \A reason \in FetchErrors :
          (loading /\ LoadFail(reason))
            => (Screen(Cur') = "error" /\ error' = Some(reason) /\ wordsData' = <<>>)
     /\ Screen(Cur) = "error"
          => \/ Screen(Cur') = "error" /\ error' = error /\ wordsData' = <<>>
             \/ Reload /\ Screen(Cur') = "loading" /\ error' = None]_vars

C20_Witness ==
  /\ Screen(Cur) = "error" /\ error = Some("Unexpected token < in JSON")
  /\ wordsData = <<>> /\ timeLeft < WarningThreshold

\* C21 as stated: on the bomb screen the score and totalQuestions the
\* session had before the time-out are no longer held (nor shown).
C21_TimeoutDiscardsScore ==
  Screen(Cur) = "bomb"
    => (score = 0 /\ totalQuestions = 0 /\ ScoreShown(Cur) \in {None, Some(<<0, 0>>)})

\* C21 amended: the time-out leaves score and totalQuestions as they were and
\* the bomb screen shows them ("Previous score"); the bomb screen offers no
\* answer, and the only step out of it is resetGame, which zeroes both and
\* starts over at the first coordinate.
C21_TimeoutKeepsScoreUntilReset ==
  [][/\ (~bombExploded /\ bombExploded')
          => /\ score' = score /\ totalQuestions' = totalQuestions
             /\ Screen(Cur') = "bomb" => ScoreShown(Cur') = Some(<<score, totalQuestions>>)
     /\ Screen(Cur) = "bomb"
          => /\ ResetGame
             /\ score' = 0 /\ totalQuestions' = 0
             /\ AtFirstCoordinate(Cur') /\ Unanswered(Cur')]_vars

C21_Witness ==
  /\ Screen(Cur) = "bomb" /\ score = 1 /\ totalQuestions = 1
  /\ ScoreShown(Cur) = Some(<<1, 1>>)
  /\ ~AtFirstCoordinate(Cur)

\* C22: a session is completed exactly when every coordinate has been
\* answered once: whenever gameComplete is set, totalQuestions (the answers
\* of the session begun by the last mode change or reset) equals
\* wordCount x formsPerWord.
C22_CompletionCount ==
  (gameComplete /\ Len(wordsData) > 0)
    => totalQuestions = Len(wordsData) * formsPerWord(wordsData)

----------------------------------------------------------------------------
(* handleNext walked over every store of the bounds, side by side: the     *)
(* component in sequential mode (the two counters), and the same component *)
(* reading the queue that generateQuestionQueue builds for sequential mode *)

\* the session that reads its coordinates from the queue: gameMode is not
\* 'sequential' and questionQueue is the sequential queue
QueueSession(S, queue) ==
  [S EXCEPT !.gameMode = "fully-random", !.questionQueue = queue]

StartWalk ==
  /\ ret = NoCall
  /\ \E queue \in generateQuestionQueue(wordsData, "sequential") :
       ret' = [fn |-> "handleNext", advances |-> 0,
               queueSession |-> QueueSession(Cur, queue)]
  /\ UNCHANGED <<wordsData, loading, error, currentWordIndex, currentFormIndex, score,
                 totalQuestions, selectedAnswer, showResult, gameComplete, choices,
                 timeLeft, bombExploded, showBombWarning, gameMode, questionQueue,
                 currentQueueIndex, timer, pending>>

\* one handleNext() in each of the two sessions (none in a completed one)
WalkAdvance ==
  /\ ret.fn = "handleNext"
  /\ ~gameComplete \/ ~ret.queueSession.gameComplete
  /\ LET Q == ret.queueSession
         S == IF gameComplete THEN Cur ELSE handleNext(Cur, Closure(Cur))
     IN  /\ currentWordIndex' = S.currentWordIndex
         /\ currentFormIndex' = S.currentFormIndex
         /\ currentQueueIndex' = S.currentQueueIndex
         /\ selectedAnswer' = S.selectedAnswer
         /\ showResult' = S.showResult
         /\ gameComplete' = S.gameComplete
         /\ ret' = [ret EXCEPT !.advances = @ + 1,
                               !.queueSession = IF Q.gameComplete THEN Q
                                                ELSE handleNext(Q, Closure(Q))]
  /\ UNCHANGED <<wordsData, loading, error, score, totalQuestions, choices, timeLeft,
                 bombExploded, showBombWarning, gameMode, questionQueue, timer, pending>>

NextWalk ==
  \/ StartWalk
  \/ WalkAdvance

SpecWalk == InitQueue /\ [][NextWalk]_vars

\* C23: after the same number of handleNext calls the sequential counters
\* and the consumer of the sequential queue are at the same coordinate, and
\* one has completed exactly when the other has.
C23_WalkEqualsQueue ==
  ret.fn = "handleNext"
    => /\ getCurrentQuestion(Cur) = getCurrentQuestion(ret.queueSession)
       /\ getCurrentQuestion(Cur) # None
       /\ gameComplete = ret.queueSession.gameComplete

\* both walks have crossed from the first verb (two forms) into the second
\* and completed there, after one advance per coordinate
C23_Witness ==
  /\ ret.fn = "handleNext"
  /\ Len(wordsData) = 2 /\ Len(wordsData[1].forms) = 2 /\ Len(wordsData[2].forms) = 3
  /\ ret.advances = 5
  /\ gameComplete /\ ret.queueSession.gameComplete
  /\ currentWordIndex = 1 /\ currentFormIndex = 2
  /\ ret.queueSession.currentQueueIndex = 4

----------------------------------------------------------------------------
(* The two steps of the distractor generator *)

\* the values of the verb's forms other than the correct answer, in the
\* declared order of the forms
OwnOthers(word, correctAnswer) ==
  SelectSeq(ObjectValues(word), LAMBDA form : form # correctAnswer)

\* C24: generateWrongAnswers starts with the current verb's own form values
\* other than the correct answer, in declared order, up to 3; when the verb
\* has at least 3 of them the result is exactly the first 3.
C24_SameVerbFirst ==
  ret.fn = "generateWrongAnswers"
    => LET own == OwnOthers(At(wordsData, ret.wordIndex), ret.correctAnswer)
           n == Min(MaxWrongAnswers, Len(own))
       IN  /\ Len(ret.wrongAnswers) >= n
           /\ SubSeq(ret.wrongAnswers, 1, n) = SubSeq(own, 1, n)
           /\ Len(own) >= MaxWrongAnswers => ret.wrongAnswers = SubSeq(own, 1, n)

\* a verb with 4 forms in a store of two verbs: its 3 other values are the
\* result, and the other verb has a different value at the question's key
C24_Witness ==
  /\ ret.fn = "generateWrongAnswers"
  /\ Len(wordsData) = 2 /\ formsPerWord(wordsData) = 4
  /\ ret.wordIndex = 0 /\ ret.formIndex = 1
  /\ ret.wrongAnswers = <<"a", "c", "d">>
  /\ FormValue(At(wordsData, 1), ret.currentFormKey) = Some("c")
  /\ Len(OwnOthers(At(wordsData, 0), ret.correctAnswer)) = 3

\* the verbs other than verb currentWord whose value at form key currentForm
\* is not empty, by position in the store
OtherVerbs(data, currentWord, currentForm) ==
  {w \in 0..(Len(data) - 1) :
     w # currentWord /\ Truthy(FormValue(At(data, w), currentForm))}

\* the first of them, in store order, whose value at currentForm is v
FirstVerb(data, currentWord, currentForm, v) ==
  LET holders == {w \in OtherVerbs(data, currentWord, currentForm) :
                    FormValue(At(data, w), currentForm) = Some(v)}
  IN  CHOOSE w \in holders : \A u \in holders : w <= u

\* C25: with fewer than 3 values from the verb itself, generateWrongAnswers
\* goes through the other verbs in store order and appends each one's value
\* at the question's form key unless it is empty or already chosen, until 3
\* are chosen; with 3 values from the verb itself it appends nothing.  Every
\* appended value is some other verb's value at the question's form key.
C25_OtherVerbsSameKey ==
  ret.fn = "generateWrongAnswers"
    => LET res == ret.wrongAnswers
           own == Slice(OwnOthers(At(wordsData, ret.wordIndex), ret.correctAnswer),
                        MaxWrongAnswers)
           others == OtherVerbs(wordsData, ret.wordIndex, ret.currentFormKey)
           appended == (Len(own) + 1)..Len(res)
           Source(p) == FirstVerb(wordsData, ret.wordIndex, ret.currentFormKey, res[p])
       IN  /\ Len(res) >= Len(own) /\ Len(res) <= MaxWrongAnswers
           /\ Len(own) = MaxWrongAnswers => appended = {}
           /\ \A p \in appended :
                /\ \E w \in others :
                     FormValue(At(wordsData, w), ret.currentFormKey) = Some(res[p])
                /\ \A q \in 1..(p - 1) : res[q] # res[p]
           /\ \A p, q \in appended : p < q => Source(p) < Source(q)
           /\ \A w \in others :
                \/ Contains(res, FormValue(At(wordsData, w), ret.currentFormKey)[1])
                \/ /\ Len(res) = MaxWrongAnswers
                   /\ appended # {} => w > Source(Len(res))

\* four verbs with two forms: the verb gives one value, the second verb's
\* value at the key is empty, the third's is already chosen, the fourth's is
\* appended
C25_Witness ==
  /\ ret.fn = "generateWrongAnswers"
  /\ Len(wordsData) = 4 /\ ret.wordIndex = 0 /\ ret.formIndex = 0
  /\ ret.correctAnswer = "a"
  /\ FormValue(At(wordsData, 1), ret.currentFormKey) = Some("")
  /\ FormValue(At(wordsData, 2), ret.currentFormKey) = Some("b")
  /\ FormValue(At(wordsData, 3), ret.currentFormKey) = Some("c")
  /\ FormValue(At(wordsData, 3), "k1") = Some("d")
  /\ ret.wrongAnswers = <<"b", "c">>

----------------------------------------------------------------------------
(* The countdown of a new question *)

\* the timer effect's timeout is pending and its callback will set
\* timeLeft to n - 1
ArmedFrom(T, n) == T = Some([timeLeft |-> n])

\* C26: a step that presents a question (it fires an auto-advance, starts
\* a session by a mode change or a reset, or shows another question or a
\* question where none was open) leaves timeLeft at 15 with the tick armed
\* from 15, whatever timeLeft was before; on an open question the pending
\* tick always decrements from the timeLeft shown.
C26_CountdownRestarts ==
  [][Unanswered(Cur') =>
       /\ ArmedFrom(timer', timeLeft')
       /\ (timeLeft' # TimeBudget)
            => /\ Len(pending') >= Len(pending)
               /\ Unanswered(Cur)
               /\ getCurrentQuestion(Cur') = getCurrentQuestion(Cur)
               /\ ~\E newMode \in Modes : ChangeGameMode(newMode)
               /\ ArmedFrom(timer, timeLeft) /\ timeLeft' = timeLeft - 1]_vars

\* an answer was given with 13 left and its auto-advance is about to
\* present the next question with 15
C26_Witness ==
  /\ Screen(Cur) = "game" /\ showResult /\ timeLeft = 13 /\ timer = None
  /\ Len(pending) = 1
  /\ ENABLED (/\ AutoAdvance(1)
              /\ ~showResult' /\ ~gameComplete'
              /\ timeLeft' = TimeBudget /\ timer' = Some([timeLeft |-> TimeBudget]))

----------------------------------------------------------------------------
(* The reveal and its auto-advance *)

\* C27: a step that accepts an answer (totalQuestions goes up) adds exactly
\* one auto-advance to the pending ones, with delay 1500 ms if the answer
\* scored and 2500 ms if not, and nothing else schedules one; 1500 < 2500;
\* while showResult stays set the correct answer of the current coordinate
\* does not change.
C27_OneAdvancePerAnswer ==
  [][/\ CorrectDelay < IncorrectDelay
     /\ totalQuestions' = totalQuestions + 1
          => /\ Len(pending') = Len(pending) + 1
             /\ SubSeq(pending', 1, Len(pending)) = pending
             /\ pending'[Len(pending')].ticks = 0
             /\ score' = score + 1 => pending'[Len(pending')].delay = 1500
             /\ score' = score => pending'[Len(pending')].delay = 2500
             /\ score' \in {score, score + 1}
             /\ showResult' /\ correctAnswerOf(Cur') = correctAnswerOf(Cur)
     /\ Len(pending') > Len(pending) => totalQuestions' = totalQuestions + 1
     /\ (showResult /\ showResult') => correctAnswerOf(Cur') = correctAnswerOf(Cur)]_vars

\* a wrong answer is on display, its auto-advance the only one pending, and
\* the correct answer is among the choices
C27_Witness ==
  /\ Screen(Cur) = "game" /\ showResult
  /\ selectedAnswer # None /\ selectedAnswer # correctAnswerOf(Cur)
  /\ score = 0 /\ totalQuestions = 1
  /\ Len(pending) = 1 /\ pending[1].delay = IncorrectDelay /\ pending[1].ticks = 0
  /\ Contains(choices, correctAnswerOf(Cur)[1])

\* one of the pending auto-advance timeouts is taken off the timer queue:
\* what the steps AutoAdvance(i) do to pending, and no other step of Spec does
TimeoutFires == \E i \in 1..Len(pending) : pending' = RemoveAt(pending, i)

\* the promise of fetch('./data/tafeel.json') settles and loadWordsData runs
\* to its finally block: what LoadSuccess and LoadFail do to loading
FetchSettles == loading /\ loading' = FALSE

\* Spec with the scheduling of the browser: a timeout that is set is run, so
\* the pending auto-advances do not wait for ever (the oldest one can always
\* fire: AutoAdvance(1) has no guard but pending # <<>>), and a fetch that
\* was started is fulfilled or rejected
SpecLive == Spec /\ WF_pending(TimeoutFires) /\ WF_loading(FetchSettles)

\* C28: a session showing a result always comes to show none (the timeout
\* set by the answer needs no learner input to fire); and the step that ends
\* the reveal by firing an auto-advance clears selectedAnswer and showResult
\* and either moves the session to its next coordinate or sets gameComplete.
C28_RevealEnds ==
  /\ showResult ~> ~showResult
  /\ [][(showResult /\ Len(pending') < Len(pending))
          => /\ selectedAnswer' = None /\ ~showResult'
             /\ \/ gameComplete' /\ getCurrentQuestion(Cur') = getCurrentQuestion(Cur)
                \/ /\ ~gameComplete'
                   /\ getCurrentQuestion(Cur') # getCurrentQuestion(Cur)]_vars

----------------------------------------------------------------------------
(* The urgency flag *)

\* C29: on an open question with timeLeft <= 5 showBombWarning is set, and
\* on a question just presented (timeLeft = 15) it is clear.
C29_WarningAtThreshold ==
  Unanswered(Cur)
    => /\ timeLeft <= WarningThreshold => showBombWarning
       /\ timeLeft = TimeBudget => ~showBombWarning

----------------------------------------------------------------------------
(* The load *)

\* the component as a successful load leaves it
Ready(S) ==
  /\ ~S.loading /\ S.error = None /\ S.wordsData \in GameStores
  /\ S.gameMode = "sequential" /\ S.currentWordIndex = 0 /\ S.currentFormIndex = 0
  /\ getCurrentQuestion(S) = Some([wordIndex |-> 0, formIndex |-> 0, formKey |-> "k0"])
  /\ S.timeLeft = TimeBudget /\ S.score = 0 /\ S.totalQuestions = 0

\* C30: loading always ends; the step that ends it leaves the component
\* ready (no error, the fetched array as the store, sequential mode at
\* coordinate (0,0), timeLeft 15) or in error with the store empty; and no
\* state outside loading has both an error and a non-empty store.
C30_LoadTerminates ==
  /\ loading ~> ~loading
  /\ [][(loading /\ ~loading')
          => \/ Ready(Cur') /\ \E data \in GameStores : LoadSuccess(data) /\ wordsData' = data
             \/ error' \in {Some(reason) : reason \in FetchErrors} /\ wordsData' = <<>>]_vars
  /\ [](~loading => ~(error # None /\ Len(wordsData) > 0))

\* the store of one verb with two forms has just been loaded: the first
\* question is open with its choices and the tick is armed from 15
C30_Witness ==
  /\ Ready(Cur) /\ Len(wordsData) = 1
  /\ Screen(Cur) = "game" /\ ~showResult /\ Len(choices) = 2
  /\ timer = Some([timeLeft |-> TimeBudget]) /\ pending = <<>> /\ questionQueue = <<>>

----------------------------------------------------------------------------
(* Where the timer runs *)

\* C31: a tick (timeLeft goes down) or a timeout (bombExploded becomes set)
\* happens only on an open question: store loaded, no error, the coordinate
\* resolved, the choices built, no answer chosen; and bombExploded is never
\* set while there is an error or the store is empty.
C31_TimerOnlyWhenAnswering ==
  [][/\ (timeLeft' < timeLeft \/ (~bombExploded /\ bombExploded'))
          => (Unanswered(Cur) /\ choices # <<>>)
     /\ bombExploded' => (error' = None /\ Len(wordsData') > 0)]_vars

\* C32: in every reachable state 0 <= timeLeft <= 15.
C32_TimeLeftInBudget == timeLeft \in 0..TimeBudget

\* the countdown of the second question has run from 15 down to 0: no tick
\* is armed any more
C32_Witness ==
  /\ timeLeft = 0 /\ timer = None /\ bombExploded
  /\ Len(wordsData) = 1 /\ currentFormIndex = 1 /\ totalQuestions = 1 /\ ~showResult

----------------------------------------------------------------------------
(* Answers during the reveal *)

\* C33: while a result is shown no click on a choice button changes anything:
\* selectedAnswer, score, totalQuestions, the position, timeLeft and the
\* pending auto-advances (every variable) stay as they are.
C33_SecondAnswerIgnored ==
  (showResult /\ Screen(Cur) = "game")
    => \A i \in 1..Len(choices) : ~ENABLED <<HandleAnswerSelect(choices[i])>>_vars

\* a result is shown and the learner can click a choice other than the one
\* already selected
C33_Witness ==
  /\ Screen(Cur) = "game" /\ showResult /\ Len(pending) = 1
  /\ \E answer \in Answers :
       /\ Contains(choices, answer) /\ Some(answer) # selectedAnswer
       /\ ENABLED HandleAnswerSelect(answer)

----------------------------------------------------------------------------
(* The terminal conditions *)

\* C34: in no reachable state are gameComplete and bombExploded both set.
C34_TerminalsExclusive == ~(gameComplete /\ bombExploded)

\* the last question was answered with one unit left: the session is
\* completed, the countdown stays at 1 with no tick armed
C34_Witness ==
  /\ gameComplete /\ ~bombExploded /\ timeLeft = 1 /\ timer = None
  /\ Len(wordsData) = 2 /\ totalQuestions = 2

----------------------------------------------------------------------------
(* The choices effect on a verb of five forms, where the choices of one    *)
(* question differ from those of another, for a learner who answers        *)
(* within the first second: load, answers, auto-advances, mode changes and *)
(* the reset of the completion screen.  The mode buttons and the reset are *)
(* taken where generateQuestionQueue runs with gameMode 'sequential' or    *)
(* not at all, so that the queue stays in store order: the 120 shuffles of *)
(* five coordinates times the 24 orders of the choices are left to Spec.   *)

ChoiceStores == {<<MkWord(<<"a", "b", "c", "d", "e">>)>>}

ChoiceAnswers == {"a", "e"}

NextChoices ==
  \/ \E data \in ChoiceStores : LoadSuccess(data)
  \/ \E i \in 1..MaxPending : AutoAdvance(i)
  \/ \E answer \in ChoiceAnswers : HandleAnswerSelect(answer)
  \/ \E newMode \in Modes :
       (gameMode = "sequential" \/ newMode = "sequential") /\ ChangeGameMode(newMode)
  \/ gameMode = "sequential" /\ ResetGame

SpecChoices == Init /\ [][NextChoices]_vars

----------------------------------------------------------------------------
(* Termination of a play-through *)

\* the timer effect's timeout runs its callback: what TimerTick does to
\* timeLeft (a tick waits only for an auto-advance that is due before it,
\* and that one fires)
TickFires == timer # None /\ timeLeft' = timer[1].timeLeft - 1

\* SpecLive with the timer effect's timeout also run once it is set
SpecTimers == SpecLive /\ WF_timeLeft(TickFires)

\* a mode button is clicked: the step from the game screen that is neither a
\* tick nor an answer nor an auto-advance
ModeChangeStep ==
  /\ Screen(Cur) = "game"
  /\ pending' = pending
  /\ ~(timer # None /\ timeLeft' = timeLeft - 1)

\* a store is loaded and the session is neither completed nor timed out
InPlay == ~loading /\ Len(wordsData) > 0 /\ ~gameComplete /\ ~bombExploded

\* C36: if from some point on no mode button is clicked, a loaded session
\* that is neither completed nor timed out always comes to be completed or
\* timed out.
C36_PlayTerminates ==
  <>[][~ModeChangeStep]_vars => (InPlay ~> (gameComplete \/ bombExploded))

\* a fully-random session that began with a mode change, had one question
\* answered and advanced, and then timed out on the second
C36_Witness ==
  /\ bombExploded /\ ~gameComplete /\ gameMode = "fully-random"
  /\ totalQuestions = 1 /\ currentQueueIndex = 1 /\ timeLeft = 0 /\ pending = <<>>

====
